---- MODULE Spec2Model ----
(***************************************************************************)
(* A model of the API benchmark suite (api_benchmark.py): the load driver  *)
(* of performance_benchmark (symbol discovery, warmup, thread pool, the    *)
(* as_completed collection loop and the statistics), the comparator        *)
(* _compare_with_file, and the result store with its two enumerations of   *)
(* stored records (compare_with_previous and the compare-only operation),  *)
(* the timed phase under an interrupt, the outcome of a full run, and      *)
(* single calls of make_request, the discovery, the routing and the        *)
(* statistics; the warmup phase; a run in a results directory with a      *)
(* history; and parse_symbol_parts of generate_symbol_configs.py.          *)
(***************************************************************************)
EXTENDS Integers, Sequences, FiniteSets, TLC

VARIABLES
    \* ---- performance_benchmark (the load driver) ----
    mode,          \* the mode argument
    requests,      \* the requests argument (total_requests)
    connections,   \* the connections argument (concurrency)
    symbols,       \* the symbols list built by discovery
    pc,            \* position of the main thread
    warmup_i,      \* loop variable of the warmup loop
    issued,        \* set of <<phase, url>> handed to make_request so far
    futures,       \* the futures list; futures[i+1] belongs to request id i
    work_queue,    \* the executor's queue of submitted request ids
    threads,       \* the executor's threads: Idle or the request id being run
    idle_sem,      \* the executor's idle semaphore
    max_workers,   \* the executor's max_workers
    results,       \* the results list
    yielded,       \* request ids as_completed has already yielded
    completed,     \* the completed counter
    execs,         \* execs[i+1]: how many times worker(i) was started
    stats,         \* the dict performance_benchmark returns
    \* ---- _compare_with_file ----
    curr_perf,     \* current_stats
    prev_file,     \* the parsed content of compare_file
    is_baseline,   \* the is_baseline argument
    cmp_pc,        \* "call" before the comparison, "returned" after it
    report,        \* what the comparison printed
    \* ---- result store ----
    disk,          \* file names present in results_dir
    clock,         \* the wall clock in seconds
    op,            \* the last operation run against the store
    listing,       \* the enumeration of records the last operation used
    exit_code,     \* the process exit status of the last operation, or NoExit
    compared,      \* the <<previous, latest>> pair the last operation compared
    failed_tests,  \* len(test_results['failed']) at the end of the last run
    persist,       \* save_results in the last run: "none", "written", "failed"
    raised,        \* the last operation ended in an uncaught exception
    trend,         \* the historical trend the last run printed
    \* ---- one call of a function of the suite ----
    args,          \* the function called and its arguments
    ret            \* "pending" before the call, then what the call did

runVars == <<mode, requests, connections, symbols, pc, warmup_i, issued, futures,
             work_queue, threads, idle_sem, max_workers, results, yielded,
             completed, execs, stats>>
cmpVars == <<curr_perf, prev_file, is_baseline, cmp_pc, report>>
storeVars == <<disk, clock, op, listing, exit_code, compared, failed_tests, persist,
               raised, trend>>
callVars == <<args, ret>>
vars == <<runVars, cmpVars, storeVars, callVars>>

-----------------------------------------------------------------------------
(* Bounds of the model *)
MaxRequests == 2
MaxConnections == 2
MaxLatency == 1
MaxClock == 3
TicksPerSecond == 2
MaxIndex == 5
MaxSymbols == 3
MaxResults == 3
MaxSample == 3
MaxPrior == 5

-----------------------------------------------------------------------------
(* Dictionaries are functions over strings; d.get(k, default) *)
EmptyDict == [k \in {} |-> 0]

Get(d, k, default) == IF k \in DOMAIN d THEN d[k] ELSE default

Min(a, b) == IF a < b THEN a ELSE b
Max(a, b) == IF a > b THEN a ELSE b

-----------------------------------------------------------------------------
(* make_request *)

\* What the server and the transport can do with one GET.  urlopen returns
\* for a 2xx answer, raises HTTPError for any other status and raises another
\* exception on a transport failure.
\* len is the length of the body read (0 when nothing is read).
Responses ==
    [kind : {"response"}, code : {200, 201}, len : {64}]
        \cup [kind : {"HTTPError"}, code : {404}, len : {0}]
        \cup [kind : {"Exception"}, code : {0}, len : {0}]

\* The exception classes urlopen and read raise on a failure, each with its
\* base class: URLError for a refused connection, a DNS failure or a timeout
\* while connecting, TimeoutError for a timeout while reading,
\* IncompleteRead and ConnectionResetError while reading the body.
BaseClass ==
    [HTTPError |-> "URLError", URLError |-> "OSError",
     TimeoutError |-> "OSError", ConnectionResetError |-> "OSError",
     OSError |-> "Exception", IncompleteRead |-> "HTTPException",
     HTTPException |-> "Exception", Exception |-> "BaseException"]

RECURSIVE IsSubclass(_, _)
IsSubclass(cls, base) ==
    IF cls = base THEN TRUE
    ELSE IF cls \in DOMAIN BaseClass THEN IsSubclass(BaseClass[cls], base)
    ELSE FALSE

TransportFailures ==
    [kind : {"URLError", "TimeoutError", "IncompleteRead", "ConnectionResetError"},
     code : {0}, len : {0}]

HTTPErrors == [kind : {"HTTPError"}, code : {400, 404, 500, 503}, len : {0}]

\* A variant whose second clause is except urllib.error.URLError
ExceptClauseURLError(kind) ==
    IF IsSubclass(kind, "HTTPError") THEN "HTTPError"
    ELSE IF IsSubclass(kind, "URLError") THEN "Exception"
    ELSE "none"

\* lines 54 and 63: the except clause that takes an exception of class kind
ExceptClause(kind) ==
    IF IsSubclass(kind, "HTTPError") THEN "HTTPError"
    ELSE IF IsSubclass(kind, "Exception") THEN "Exception"
    ELSE "none"

\* make_request lets the exception through to its caller
Raises(resp) == resp.kind # "response" /\ ExceptClause(resp.kind) = "none"

make_request(resp, elapsed) ==
    CASE resp.kind = "response" ->
            [status |-> resp.code, latency_ms |-> elapsed, bytes |-> resp.len,
             error |-> "None"]
      [] ExceptClause(resp.kind) = "HTTPError" ->
            [status |-> resp.code, latency_ms |-> elapsed, bytes |-> 0,
             error |-> "HTTP"]
      [] OTHER ->
            [status |-> 0, latency_ms |-> elapsed, bytes |-> 0,
             error |-> "str(e)"]

Latencies == 1..MaxLatency

-----------------------------------------------------------------------------
(* Symbol discovery, performance_benchmark lines 364-383 *)

DefaultSymbols == <<"BTC-USD">>

\* An item of an exchange's symbol list in the /api/symbols body: a JSON
\* string, or a JSON object holding the identifier under "symbol".
Str(s) == [type |-> "str", symbol |-> s]
Obj(s) == [type |-> "dict", symbol |-> s]

\* Bodies the symbols endpoint may answer with: not JSON, JSON without
\* "exchanges", or the value of "exchanges" as the sequence of its lists
\* (none, empty ones, strings, objects, both).
DiscoveryBodies ==
    { [json |-> FALSE, has_exchanges |-> FALSE, exchanges |-> << >>],
      [json |-> TRUE, has_exchanges |-> FALSE, exchanges |-> << >>],
      [json |-> TRUE, has_exchanges |-> TRUE, exchanges |-> << >>],
      [json |-> TRUE, has_exchanges |-> TRUE, exchanges |-> << << >>, << >> >>],
      [json |-> TRUE, has_exchanges |-> TRUE,
       exchanges |-> << <<Str("ETH-USD"), Str("SOL-USD")>> >>],
      [json |-> TRUE, has_exchanges |-> TRUE,
       exchanges |-> << <<Obj("ETH-USD"), Obj("BTC-USD"), Obj("SOL-USD"), Obj("XRP-USD")>>,
                        <<Obj("ADA-USD"), Obj("DOT-USD")>>,
                        <<Obj("LTC-USD")>> >>],
      [json |-> TRUE, has_exchanges |-> TRUE,
       exchanges |-> << <<Obj("ETH-USD")>>, <<Str("SOL-USD")>> >>] }

SeqContains(seq, x) == \E i \in 1..Len(seq) : seq[i] = x

\* The inner loop over symbol_list[:3].  The state is [syms, raised]:
\* symbol_info.get raises AttributeError on a str, which leaves the loops
\* with the symbols appended so far.
RECURSIVE ScanList(_, _, _)
ScanList(list, k, st) ==
    IF st.raised \/ k > Min(3, Len(list)) THEN st
    ELSE IF list[k].type = "str" THEN [st EXCEPT !.raised = TRUE]
    ELSE LET symbol == list[k].symbol
             syms == IF SeqContains(st.syms, symbol) THEN st.syms
                     ELSE Append(st.syms, symbol)
         IN IF Len(syms) >= 5 THEN [st EXCEPT !.syms = syms]
            ELSE ScanList(list, k + 1, [st EXCEPT !.syms = syms])

\* The outer loop over data['exchanges'].items()
RECURSIVE ScanExchanges(_, _, _)
ScanExchanges(exchanges, e, st) ==
    IF st.raised \/ e > Len(exchanges) THEN st
    ELSE LET after == ScanList(exchanges[e], 1, st)
         IN IF Len(after.syms) >= 5 THEN after
            ELSE ScanExchanges(exchanges, e + 1, after)

\* A variant that starts from an empty list
DiscoverSymbolsFromEmpty(result_status, body) ==
    IF result_status = 200 /\ body.json /\ body.has_exchanges
    THEN ScanExchanges(body.exchanges, 1, [syms |-> << >>, raised |-> FALSE]).syms
    ELSE << >>

DiscoverSymbols(result_status, body) ==
    IF result_status = 200 /\ body.json /\ body.has_exchanges
    THEN ScanExchanges(body.exchanges, 1,
                       [syms |-> DefaultSymbols, raised |-> FALSE]).syms
    ELSE DefaultSymbols

-----------------------------------------------------------------------------
(* URLs: the endpoint, and for /api/data the symbol and the columns *)

SymbolsUrl == [endpoint |-> "symbols", symbol |-> "-", columns |-> "-"]
StatusUrl == [endpoint |-> "status", symbol |-> "-", columns |-> "-"]
DataUrl(symbol, columns) ==
    [endpoint |-> "data", symbol |-> symbol, columns |-> columns]

\* lines 393, 396-405: the warmup count and the URL of warmup request i
\* A variant without the upper limit
WarmupCountUncapped(reqs) == Max(10, reqs \div 10)

WarmupCount(reqs) == Max(10, Min(50, reqs \div 10))

WarmupUrl(m, i, syms) ==
    IF m = "symbols" \/ (m = "mixed" /\ i % 2 = 0)
    THEN SymbolsUrl
    ELSE DataUrl(syms[(i % Len(syms)) + 1], "time,best_bid")

\* A variant whose mixed mode takes the next symbol at every third request
WorkerUrlRotating(m, request_id, syms) ==
    IF m = "symbols" THEN SymbolsUrl
    ELSE IF m = "api" THEN
        IF request_id % 2 = 0 THEN SymbolsUrl ELSE StatusUrl
    ELSE IF m = "data" THEN
        DataUrl(syms[(request_id % Len(syms)) + 1], "time,best_bid,best_ask")
    ELSE
        LET endpoint_choice == request_id % 3
        IN IF endpoint_choice = 0 THEN SymbolsUrl
           ELSE IF endpoint_choice = 1 THEN StatusUrl
           ELSE DataUrl(syms[((request_id \div 3) % Len(syms)) + 1], "time,best_bid")

\* lines 412-443: the URL worker(request_id) fetches
WorkerUrl(m, request_id, syms) ==
    IF m = "symbols" THEN SymbolsUrl
    ELSE IF m = "api" THEN
        IF request_id % 2 = 0 THEN SymbolsUrl ELSE StatusUrl
    ELSE IF m = "data" THEN
        DataUrl(syms[(request_id % Len(syms)) + 1], "time,best_bid,best_ask")
    ELSE
        LET endpoint_choice == request_id % 3
        IN IF endpoint_choice = 0 THEN SymbolsUrl
           ELSE IF endpoint_choice = 1 THEN StatusUrl
           ELSE DataUrl(syms[(request_id % Len(syms)) + 1], "time,best_bid")

-----------------------------------------------------------------------------
(* The state outside the operation a specification is about *)

Idle == -1
NoResult == [status |-> -1, latency_ms |-> 0, bytes |-> 0, error |-> "None"]
NoExit == -1

RunIdle ==
    /\ mode = "data" /\ requests = 1 /\ connections = 1
    /\ symbols = DefaultSymbols /\ pc = "off" /\ warmup_i = 0 /\ issued = {}
    /\ futures = << >> /\ work_queue = << >> /\ threads = << >>
    /\ idle_sem = 0 /\ max_workers = 0 /\ results = << >> /\ yielded = {}
    /\ completed = 0 /\ execs = << >> /\ stats = EmptyDict

CmpIdle ==
    /\ curr_perf = EmptyDict /\ prev_file = EmptyDict /\ is_baseline = FALSE
    /\ cmp_pc = "off" /\ report = EmptyDict

StoreIdle ==
    /\ disk = {} /\ clock = 0 /\ op = "none" /\ listing = << >>
    /\ exit_code = NoExit /\ compared = << >>
    /\ failed_tests = 0 /\ persist = "none" /\ raised = FALSE
    /\ trend = [shown |-> FALSE, p99 |-> << >>, rps |-> << >>]

Pending == [state |-> "pending"]

CallIdle ==
    /\ args = [fn |-> "none"] /\ ret = Pending

-----------------------------------------------------------------------------
(* performance_benchmark, lines 354-496 *)

Modes == {"symbols", "data", "mixed", "api"}

InitRun ==
    /\ mode \in Modes
    /\ requests \in 1..MaxRequests
    /\ connections \in 1..MaxConnections
    /\ symbols = DefaultSymbols
    /\ pc = "discover"
    /\ warmup_i = 0
    /\ issued = {}
    /\ futures = << >>
    /\ work_queue = << >>
    /\ threads = << >>
    /\ idle_sem = 0
    /\ max_workers = 0
    /\ results = << >>
    /\ yielded = {}
    /\ completed = 0
    /\ execs = << >>
    /\ stats = EmptyDict
    /\ CmpIdle
    /\ StoreIdle
    /\ CallIdle

\* lines 364-383: fetch the symbols, then build the symbols list
Discover ==
    /\ pc = "discover"
    /\ \E resp \in Responses, body \in DiscoveryBodies, elapsed \in {1} :
         LET result == make_request(resp, elapsed)
         IN symbols' = DiscoverSymbols(result.status, body)
    /\ issued' = issued \cup {<<"discover", SymbolsUrl>>}
    /\ pc' = "warmup"
    /\ UNCHANGED <<mode, requests, connections, warmup_i, futures, work_queue,
                   threads, idle_sem, max_workers, results, yielded, completed,
                   execs, stats>>
    /\ UNCHANGED <<cmpVars, storeVars, callVars>>

\* lines 392-410: one iteration of the warmup loop; its outcome is dropped.
\* Leaving the loop starts the clock and creates the executor (line 448).
Warmup ==
    /\ pc = "warmup"
    /\ warmup_i < WarmupCount(requests)
    /\ \E resp \in Responses, elapsed \in Latencies :
         make_request(resp, elapsed) \in
            [status : Int, latency_ms : Int, bytes : Int, error : STRING]
    /\ issued' = issued \cup {<<"warmup", WarmupUrl(mode, warmup_i, symbols)>>}
    /\ warmup_i' = warmup_i + 1
    /\ IF warmup_i + 1 = WarmupCount(requests)
       THEN /\ pc' = "submit"
            /\ max_workers' = connections
       ELSE UNCHANGED <<pc, max_workers>>
    /\ UNCHANGED <<mode, requests, connections, symbols, futures, work_queue,
                   threads, idle_sem, results, yielded, completed, execs, stats>>
    /\ UNCHANGED <<cmpVars, storeVars, callVars>>

\* A variant that starts a thread whenever none is idle
AdjustThreadCountUnbounded(ths, sem, maxw) ==
    IF sem > 0 THEN [threads |-> ths, idle_sem |-> sem - 1]
    ELSE [threads |-> Append(ths, Idle), idle_sem |-> sem]

\* ThreadPoolExecutor._adjust_thread_count: reuse an idle thread if the
\* semaphore can be taken, else start a thread while below max_workers.
AdjustThreadCount(ths, sem, maxw) ==
    IF sem > 0 THEN [threads |-> ths, idle_sem |-> sem - 1]
    ELSE IF Len(ths) < maxw THEN [threads |-> Append(ths, Idle), idle_sem |-> sem]
    ELSE [threads |-> ths, idle_sem |-> sem]

\* line 449: executor.submit(worker, i) for the next i of range(requests)
Submit ==
    /\ pc = "submit"
    /\ LET i == Len(futures)
           adj == AdjustThreadCount(threads, idle_sem, max_workers)
       IN /\ i < requests
          /\ futures' = Append(futures, [state |-> "PENDING", result |-> NoResult])
          /\ execs' = Append(execs, 0)
          /\ work_queue' = Append(work_queue, i)
          /\ threads' = adj.threads
          /\ idle_sem' = adj.idle_sem
          /\ pc' = IF i + 1 = requests THEN "collect" ELSE "submit"
    /\ UNCHANGED <<mode, requests, connections, symbols, warmup_i, issued,
                   max_workers, results, yielded, completed, stats>>
    /\ UNCHANGED <<cmpVars, storeVars, callVars>>

\* A pool thread takes the next work item and starts worker(request_id)
WorkerStart(t) ==
    /\ t \in 1..Len(threads)
    /\ threads[t] = Idle
    /\ work_queue # << >>
    /\ LET request_id == Head(work_queue)
       IN /\ work_queue' = Tail(work_queue)
          /\ threads' = [threads EXCEPT ![t] = request_id]
          /\ futures' = [futures EXCEPT ![request_id + 1].state = "RUNNING"]
          /\ execs' = [execs EXCEPT ![request_id + 1] = @ + 1]
          /\ issued' = issued \cup {<<"timed", WorkerUrl(mode, request_id, symbols)>>}
    /\ UNCHANGED <<mode, requests, connections, symbols, pc, warmup_i, idle_sem,
                   max_workers, results, yielded, completed, stats>>
    /\ UNCHANGED <<cmpVars, storeVars, callVars>>

\* line 445: make_request returns in the pool thread; the future gets the
\* outcome and the thread goes back to the queue.
WorkerFinish(t) ==
    /\ t \in 1..Len(threads)
    /\ threads[t] # Idle
    /\ \E resp \in Responses, elapsed \in Latencies :
         futures' = [futures EXCEPT ![threads[t] + 1] =
                        [state |-> "FINISHED", result |-> make_request(resp, elapsed)]]
    /\ threads' = [threads EXCEPT ![t] = Idle]
    /\ idle_sem' = idle_sem + 1
    /\ UNCHANGED <<mode, requests, connections, symbols, pc, warmup_i, issued,
                   work_queue, max_workers, results, yielded, completed, execs,
                   stats>>
    /\ UNCHANGED <<cmpVars, storeVars, callVars>>

\* A variant that drops the outcome of a transport failure
CollectBodyDropsFailure(res, done, result) ==
    IF result.status = 0 THEN [results |-> res, completed |-> done + 1]
    ELSE [results |-> Append(res, result), completed |-> done + 1]

\* A variant that leaves the loop body before the increment on a failure
CollectBodyLostUpdate(res, done, result) ==
    [results |-> Append(res, result),
     completed |-> IF result.status # 200 THEN done ELSE done + 1]

\* lines 452-458: one iteration of the as_completed loop, in the main thread
CollectBody(res, done, result) ==
    [results |-> Append(res, result), completed |-> done + 1]

Collect ==
    /\ pc = "collect"
    /\ \E i \in 0..(Len(futures) - 1) :
         /\ i \notin yielded
         /\ futures[i + 1].state = "FINISHED"
         /\ LET body == CollectBody(results, completed, futures[i + 1].result)
            IN /\ results' = body.results
               /\ completed' = body.completed
         /\ yielded' = yielded \cup {i}
         /\ pc' = IF yielded' = 0..(Len(futures) - 1) THEN "shutdown" ELSE "collect"
    /\ UNCHANGED <<mode, requests, connections, symbols, warmup_i, issued, futures,
                   work_queue, threads, idle_sem, max_workers, execs, stats>>
    /\ UNCHANGED <<cmpVars, storeVars, callVars>>

\* line 448, leaving the with block: shutdown(wait=True) joins the threads
Shutdown ==
    /\ pc = "shutdown"
    /\ work_queue = << >>
    /\ \A t \in 1..Len(threads) : threads[t] = Idle
    /\ pc' = "analyze"
    /\ UNCHANGED <<mode, requests, connections, symbols, warmup_i, issued, futures,
                   work_queue, threads, idle_sem, max_workers, results, yielded,
                   completed, execs, stats>>
    /\ UNCHANGED <<cmpVars, storeVars, callVars>>

-----------------------------------------------------------------------------
(* The statistics, lines 462-496 *)

\* [r for r in results if r['status'] == 200] and its complement
Successful(res) == SelectSeq(res, LAMBDA r : r.status = 200)

\* A variant that takes an outcome for failed when it carries an error
FailedByError(res) == SelectSeq(res, LAMBDA r : r.error # "None")

Failed(res) == SelectSeq(res, LAMBDA r : r.status # 200)

\* sum(r['bytes'] for r in results), added up by halves
RECURSIVE SumBytes(_)
SumBytes(res) ==
    IF res = << >> THEN 0
    ELSE IF Len(res) = 1 THEN res[1].bytes
    ELSE LET mid == Len(res) \div 2
         IN SumBytes(SubSeq(res, 1, mid)) + SumBytes(SubSeq(res, mid + 1, Len(res)))

\* latencies.sort(): the place of seq[k] in the stable ascending order
Place(seq, k) ==
    Cardinality({j \in 1..Len(seq) :
                    seq[j] < seq[k] \/ (seq[j] = seq[k] /\ j <= k)})

\* A variant that leaves the latencies in arrival order
Unsorted(seq) == seq

Sort(seq) ==
    [i \in 1..Len(seq) |-> seq[CHOOSE k \in 1..Len(seq) : Place(seq, k) = i]]

\* min(latencies) and max(latencies)
MinOf(seq) ==
    CHOOSE v \in {seq[k] : k \in 1..Len(seq)} : \A k \in 1..Len(seq) : v <= seq[k]

MaxOf(seq) ==
    CHOOSE v \in {seq[k] : k \in 1..Len(seq)} : \A k \in 1..Len(seq) : v >= seq[k]

\* A variant with the nearest-rank index ceil(len * p / 100) - 1
PercentileNearestRank(latencies, p) ==
    latencies[Max((Len(latencies) * p + 99) \div 100, 1)]

\* latencies[min(len(latencies) * p // 100, len(latencies)-1)], 0-based
Percentile(latencies, p) ==
    latencies[Min((Len(latencies) * p) \div 100, Len(latencies) - 1) + 1]

\* The fields taken from the wall clock (total_time_s, requests_per_sec,
\* throughput_mbps) and the float statistics (mean, median, stdev) are read by
\* no step of the load driver; the comparator's inputs carry them.
Summarize(res) ==
    LET successful == Successful(res)
        failed == Failed(res)
        latencies == Sort([k \in 1..Len(successful) |-> successful[k].latency_ms])
    IN IF latencies # << >>
       THEN [total_requests |-> Len(res),
             successful |-> Len(successful),
             failed |-> Len(failed),
             total_bytes |-> SumBytes(res),
             latency_min |-> MinOf(latencies),
             latency_max |-> MaxOf(latencies),
             latency_p50 |-> latencies[((Len(latencies) * 50) \div 100) + 1],
             latency_p90 |-> Percentile(latencies, 90),
             latency_p95 |-> Percentile(latencies, 95),
             latency_p99 |-> Percentile(latencies, 99)]
       ELSE [total_requests |-> Len(res),
             successful |-> 0,
             failed |-> Len(res),
             error |-> "No successful requests"]

Analyze ==
    /\ pc = "analyze"
    /\ stats' = Summarize(results)
    /\ pc' = "done"
    /\ UNCHANGED <<mode, requests, connections, symbols, warmup_i, issued, futures,
                   work_queue, threads, idle_sem, max_workers, results, yielded,
                   completed, execs>>
    /\ UNCHANGED <<cmpVars, storeVars, callVars>>

NextRun ==
    \/ Discover
    \/ Warmup
    \/ Submit
    \/ \E t \in 1..Len(threads) : WorkerStart(t)
    \/ \E t \in 1..Len(threads) : WorkerFinish(t)
    \/ Collect
    \/ Shutdown
    \/ Analyze

SpecRun == InitRun /\ [][NextRun]_vars

-----------------------------------------------------------------------------
(* The timed phase under an interrupt of the process, lines 447-460 *)

\* SIGINT during the timed phase: KeyboardInterrupt is raised in the main
\* thread inside the with block of line 448, between two submits or in the
\* wait of as_completed; no handler exists in performance_benchmark,
\* run_full_suite or main. Leaving the with block calls shutdown(wait=True).
Interrupt ==
    /\ pc \in {"submit", "collect"}
    /\ pc' = "interrupted"
    /\ UNCHANGED <<mode, requests, connections, symbols, warmup_i, issued, futures,
                   work_queue, threads, idle_sem, max_workers, results, yielded,
                   completed, execs, stats>>
    /\ UNCHANGED <<cmpVars, storeVars, callVars>>

\* ThreadPoolExecutor.shutdown(wait=True, cancel_futures=False): the threads
\* keep taking the queued work items and are joined when the queue is empty;
\* then the exception leaves performance_benchmark and the process ends.
ShutdownAfterInterrupt ==
    /\ pc = "interrupted"
    /\ work_queue = << >>
    /\ \A t \in 1..Len(threads) : threads[t] = Idle
    /\ pc' = "aborted"
    /\ UNCHANGED <<mode, requests, connections, symbols, warmup_i, issued, futures,
                   work_queue, threads, idle_sem, max_workers, results, yielded,
                   completed, execs, stats>>
    /\ UNCHANGED <<cmpVars, storeVars, callVars>>

NextCancel ==
    \/ NextRun
    \/ Interrupt
    \/ ShutdownAfterInterrupt

SpecCancel == InitRun /\ [][NextCancel]_vars

-----------------------------------------------------------------------------
(* The way into the timed phase, lines 364-449, for request totals on both *)
(* sides of the limits of the warmup count                                 *)

WarmupRequestSamples == {1, 109, 110, 250, 499, 500, 1000}

InitWarmup ==
    /\ mode \in Modes
    /\ requests \in WarmupRequestSamples
    /\ connections \in 1..MaxConnections
    /\ symbols = DefaultSymbols
    /\ pc = "discover"
    /\ warmup_i = 0
    /\ issued = {}
    /\ futures = << >>
    /\ work_queue = << >>
    /\ threads = << >>
    /\ idle_sem = 0
    /\ max_workers = 0
    /\ results = << >>
    /\ yielded = {}
    /\ completed = 0
    /\ execs = << >>
    /\ stats = EmptyDict
    /\ CmpIdle
    /\ StoreIdle
    /\ CallIdle

\* line 449: the first executor.submit of the timed phase
FirstSubmit == futures = << >> /\ Submit

NextWarmup ==
    \/ Discover
    \/ Warmup
    \/ FirstSubmit
    \/ \E t \in 1..Len(threads) : WorkerStart(t)

SpecWarmup == InitWarmup /\ [][NextWarmup]_vars

-----------------------------------------------------------------------------
(* One call of make_request, of the discovery, of worker's routing or of  *)
(* the statistics, on arguments drawn from bounded sets                    *)

RequestEvents == Responses \cup HTTPErrors \cup TransportFailures

\* Symbols the symbols endpoint may list
SymbolPool == {"BTC-USD", "ETH-USD", "SOL-USD", "XRP-USD"}

\* The lists discovery can build: the default first, no symbol twice
SymbolLists ==
    {S \in UNION {[1..n -> SymbolPool] : n \in 1..MaxSymbols} :
        /\ S[1] = DefaultSymbols[1]
        /\ \A i, j \in DOMAIN S : i < j => S[i] # S[j]}

\* Outcomes in a results list: an answer 200 or a transport failure
SampleOutcomes ==
    {make_request(resp, elapsed) :
        resp \in {r \in Responses : r.code \in {200, 0}}, elapsed \in 1..MaxSample}

\* n answers 200 whose latencies n, n-1, .., 1 arrive in descending order
Ramp(n) ==
    [k \in 1..n |-> make_request([kind |-> "response", code |-> 200, len |-> 64],
                                 n + 1 - k)]

\* The least lengths at which the index of p90 is below that of p95, and
\* at which the index of p99 is below the last one; 10 is the length of the
\* example of the percentile rule
RampLengths == {10, 20, 100, 101}

ResultLists ==
    UNION {[1..n -> SampleOutcomes] : n \in 1..MaxResults}
        \cup {Ramp(n) : n \in RampLengths}

MakeRequestCalls ==
    [fn : {"make_request"}, resp : RequestEvents, elapsed : Latencies]
DiscoveryCalls ==
    [fn : {"discover"}, resp : RequestEvents, body : DiscoveryBodies]
WorkerCalls ==
    [fn : {"worker"}, mode : Modes, request_id : 0..MaxIndex, symbols : SymbolLists]
AnalysisCalls ==
    [fn : {"analyze"}, results : ResultLists]

-----------------------------------------------------------------------------
(* parse_symbol_parts, generate_symbol_configs.py lines 16-88 *)

\* A string is the sequence of its characters, so that startswith, split and
\* the regular expressions work on what the symbol holds.
LowerToUpper ==
    [a |-> "A", b |-> "B", c |-> "C", d |-> "D", e |-> "E", f |-> "F", g |-> "G",
     h |-> "H", i |-> "I", j |-> "J", k |-> "K", l |-> "L", m |-> "M", n |-> "N",
     o |-> "O", p |-> "P", q |-> "Q", r |-> "R", s |-> "S", t |-> "T", u |-> "U",
     v |-> "V", w |-> "W", x |-> "X", y |-> "Y", z |-> "Z"]

\* re.IGNORECASE compares letters by their upper case
Upper(ch) == IF ch \in DOMAIN LowerToUpper THEN LowerToUpper[ch] ELSE ch

\* sub in symbol, for a one-character sub
Contains(symbol, ch) == \E i \in 1..Len(symbol) : symbol[i] = ch

\* symbol.split(sep): the parts between the occurrences of sep
Split(symbol, sep) ==
    LET at == {i \in 1..Len(symbol) : symbol[i] = sep}
        n == Cardinality(at)
        cut(k) == IF k = 0 THEN 0
                  ELSE IF k = n + 1 THEN Len(symbol) + 1
                  ELSE CHOOSE i \in at : Cardinality({j \in at : j < i}) = k - 1
    IN [k \in 1..(n + 1) |-> SubSeq(symbol, cut(k - 1) + 1, cut(k) - 1)]

USD == <<"U", "S", "D">>
UNKNOWN == <<"U", "N", "K", "N", "O", "W", "N">>
USDT_USDC == {<<"U", "S", "D", "T">>, <<"U", "S", "D", "C">>}
USD_UST == {<<"U", "S", "D">>, <<"U", "S", "T">>}
XBT == <<"X", "B", "T">>
BTC == <<"B", "T", "C">>

\* The pattern lists of lines 22-26 and 51-53: each pattern is
\* ^(.+)(alternatives)$ with the lambda that builds the pair
BinancePatterns ==
    <<[quotes |-> {<<"U", "S", "D", "T">>,
                  <<"U", "S", "D", "C">>,
                  <<"B", "U", "S", "D">>,
                  <<"F", "D", "U", "S", "D">>},
       extractor |-> "usd"],
      [quotes |-> {<<"B", "T", "C">>,
                  <<"E", "T", "H">>,
                  <<"B", "N", "B">>},
       extractor |-> "group2"],
      [quotes |-> {<<"E", "U", "R">>,
                  <<"G", "B", "P">>,
                  <<"A", "U", "D">>,
                  <<"C", "A", "D">>,
                  <<"J", "P", "Y">>,
                  <<"T", "R", "Y">>,
                  <<"B", "R", "L">>},
       extractor |-> "group2"]>>

BitfinexPatterns ==
    <<[quotes |-> {<<"U", "S", "D">>,
                  <<"U", "S", "T">>,
                  <<"E", "U", "R">>,
                  <<"G", "B", "P">>,
                  <<"J", "P", "Y">>,
                  <<"B", "T", "C">>,
                  <<"E", "T", "H">>},
       extractor |-> "usd_or_group2"]>>

\* symbol ends with quote, letters compared without case, with at least one
\* character before it for (.+)
EndsWith(symbol, quote) ==
    /\ Len(symbol) > Len(quote)
    /\ \A i \in 1..Len(quote) :
          Upper(symbol[Len(symbol) - Len(quote) + i]) = Upper(quote[i])

\* re.match(pattern, symbol, re.IGNORECASE): (.+) is greedy, so the match is
\* the one with the shortest alternative; group(2) is the text of the symbol
ReMatch(pattern, symbol) ==
    LET hits == {q \in pattern.quotes : EndsWith(symbol, q)}
    IN IF hits = {} THEN [matched |-> FALSE]
       ELSE LET q == CHOOSE h \in hits : \A o \in hits : Len(h) <= Len(o)
                cut == Len(symbol) - Len(q)
            IN [matched |-> TRUE,
                group1 |-> SubSeq(symbol, 1, cut),
                group2 |-> SubSeq(symbol, cut + 1, Len(symbol))]

\* The lambdas of lines 23-25 and 52
Extract(extractor, match) ==
    CASE extractor = "usd" -> <<match.group1, USD>>
      [] extractor = "group2" -> <<match.group1, match.group2>>
      [] extractor = "usd_or_group2" ->
            <<match.group1, IF match.group2 \in USD_UST THEN USD ELSE match.group2>>

Exchanges == {"binance", "coinbase", "bitfinex", "kraken", "okx"}

Unbound == [bound |-> FALSE]
Bound(value) == [bound |-> TRUE, value |-> value]

\* What the if/elif chain of lines 19-76 leaves: a return, or the locals
\* symbol and patterns for the rest of the function
Returns(pair) == [returned |-> TRUE, value |-> pair]
FallsThrough(symbol, patterns) ==
    [returned |-> FALSE, symbol |-> symbol, patterns |-> patterns]

\* lines 30-37 and 70-76: coinbase and okx split on '-'
Hyphenated(symbol) ==
    LET parts == Split(symbol, "-")
    IN IF Contains(symbol, "-") /\ Len(parts) = 2
       THEN Returns(<<parts[1], IF parts[2] \in USDT_USDC THEN USD ELSE parts[2]>>)
       ELSE FallsThrough(symbol, Unbound)

\* lines 57-67: kraken splits on '_' and renames XBT
Underscored(symbol) ==
    LET parts == Split(symbol, "_")
        base == IF parts[1] = XBT THEN BTC ELSE parts[1]
    IN IF Contains(symbol, "_") /\ Len(parts) = 2
       THEN Returns(<<base, IF parts[2] \in USDT_USDC THEN USD ELSE parts[2]>>)
       ELSE FallsThrough(symbol, Unbound)

\* lines 41-53: bitfinex assigns patterns only inside startswith('t')
Prefixed(symbol) ==
    IF symbol # << >> /\ symbol[1] = "t"
    THEN LET rest == SubSeq(symbol, 2, Len(symbol))
             parts == Split(rest, ":")
         IN IF Contains(rest, ":") /\ Len(parts) = 2
            THEN Returns(<<parts[1], IF parts[2] \in USD_UST THEN USD ELSE parts[2]>>)
            ELSE FallsThrough(rest, Bound(BitfinexPatterns))
    ELSE FallsThrough(symbol, Unbound)

ExchangeBranch(symbol, exchange) ==
    CASE exchange = "binance" -> FallsThrough(symbol, Bound(BinancePatterns))
      [] exchange = "coinbase" -> Hyphenated(symbol)
      [] exchange = "bitfinex" -> Prefixed(symbol)
      [] exchange = "kraken" -> Underscored(symbol)
      [] exchange = "okx" -> Hyphenated(symbol)
      [] OTHER -> FallsThrough(symbol, Unbound)

\* lines 79-88: the loop over patterns and the fallback.  Reading patterns
\* where no branch assigned it raises UnboundLocalError.
parse_symbol_parts(symbol, exchange) ==
    LET b == ExchangeBranch(symbol, exchange)
    IN IF b.returned THEN [state |-> "returned", value |-> b.value]
       ELSE IF exchange \in {"binance", "bitfinex"} /\ ~b.patterns.bound
       THEN [state |-> "raised"]
       ELSE LET patterns == IF exchange \in {"binance", "bitfinex"}
                            THEN b.patterns.value ELSE << >>
                hits == {k \in 1..Len(patterns) : ReMatch(patterns[k], b.symbol).matched}
            IN IF hits = {}
               THEN [state |-> "returned", value |-> <<b.symbol, UNKNOWN>>]
               ELSE LET k == CHOOSE h \in hits : \A o \in hits : h <= o
                    IN [state |-> "returned",
                        value |-> Extract(patterns[k].extractor,
                                          ReMatch(patterns[k], b.symbol))]

\* Symbols in the formats of the five exchanges and symbols in none
SymbolStrings ==
    {<<"B", "T", "C", "U", "S", "D", "T">>,
     <<"E", "T", "H", "B", "T", "C">>,
     <<"B", "T", "C", "E", "U", "R">>,
     <<"b", "t", "c", "u", "s", "d", "t">>,
     <<"B", "T", "C", "F", "D", "U", "S", "D">>,
     <<"U", "S", "D", "T">>,
     <<"F", "O", "O">>,
     <<"B", "T", "C", "-", "U", "S", "D">>,
     <<"B", "T", "C", "-", "U", "S", "D", "T">>,
     <<"A", "-", "B", "-", "C">>,
     <<"B", "T", "C", "U", "S", "D">>,
     <<"t", "B", "T", "C", "U", "S", "D">>,
     <<"t", "B", "T", "C", "U", "S", "T">>,
     <<"t", "E", "T", "H", "B", "T", "C">>,
     <<"t", "b", "t", "c", "u", "s", "d">>,
     <<"t", "T", "E", "S", "T", "B", "T", "C", ":", "T", "E", "S", "T", "U", "S", "D">>,
     <<"t", "B", "T", "C", ":", "U", "S", "T">>,
     <<"t", "A", ":", "B", ":", "C">>,
     <<"t", "X", "Y", "Z">>,
     <<"t">>,
     <<"X", "B", "T", "_", "U", "S", "D">>,
     <<"E", "T", "H", "_", "U", "S", "D", "T">>,
     <<"A", "_", "B", "_", "C">>}

ParseCalls ==
    [fn : {"parse_symbol_parts"}, symbol : SymbolStrings, exchange : Exchanges]

\* The lists discovery leaves, by length: the default symbol and up to four
\* discovered ones (the loops of lines 373-381 stop at five)
KnownSymbols == <<"BTC-USD", "ETH-USD", "SOL-USD", "XRP-USD", "ADA-USD">>

\* The timed phase of a run that is long for its symbols list
TimedPhaseCalls ==
    {[fn |-> "timed_phase", mode |-> m, symbols |-> SubSeq(KnownSymbols, 1, n),
      requests |-> 3 * n + extra] :
        m \in Modes, n \in 1..Len(KnownSymbols), extra \in 0..MaxIndex}

InitCall ==
    /\ args \in MakeRequestCalls \cup DiscoveryCalls \cup WorkerCalls \cup AnalysisCalls
                 \cup TimedPhaseCalls \cup ParseCalls
    /\ ret = Pending
    /\ RunIdle
    /\ CmpIdle
    /\ StoreIdle

Return(value) == [state |-> "returned", value |-> value]
Raise == [state |-> "raised"]

\* make_request, lines 38-71
CallMakeRequest ==
    /\ args.fn = "make_request"
    /\ ret = Pending
    /\ ret' = IF Raises(args.resp) THEN Raise
              ELSE Return(make_request(args.resp, args.elapsed))
    /\ UNCHANGED args
    /\ UNCHANGED <<runVars, cmpVars, storeVars>>

\* lines 364-383: the request for the symbols and the symbols list built
CallDiscovery ==
    /\ args.fn = "discover"
    /\ ret = Pending
    /\ ret' = IF Raises(args.resp) THEN Raise
              ELSE Return(DiscoverSymbols(make_request(args.resp, 1).status,
                                          args.body))
    /\ UNCHANGED args
    /\ UNCHANGED <<runVars, cmpVars, storeVars>>

\* lines 412-443: the URL worker(request_id) builds
CallWorker ==
    /\ args.fn = "worker"
    /\ ret = Pending
    /\ ret' = Return(WorkerUrl(args.mode, args.request_id, args.symbols))
    /\ UNCHANGED args
    /\ UNCHANGED <<runVars, cmpVars, storeVars>>

\* lines 462-496: the statistics of a results list
CallAnalysis ==
    /\ args.fn = "analyze"
    /\ ret = Pending
    /\ ret' = Return(Summarize(args.results))
    /\ UNCHANGED args
    /\ UNCHANGED <<runVars, cmpVars, storeVars>>

\* line 449: worker(i) is submitted for every i of range(requests); the
\* URLs the timed phase fetches, by request id
CallTimedPhase ==
    /\ args.fn = "timed_phase"
    /\ ret = Pending
    /\ ret' = Return([i \in 1..args.requests |->
                         WorkerUrl(args.mode, i - 1, args.symbols)])
    /\ UNCHANGED args
    /\ UNCHANGED <<runVars, cmpVars, storeVars>>

\* parse_symbol_parts, generate_symbol_configs.py lines 16-88
CallParseSymbolParts ==
    /\ args.fn = "parse_symbol_parts"
    /\ ret = Pending
    /\ ret' = parse_symbol_parts(args.symbol, args.exchange)
    /\ UNCHANGED args
    /\ UNCHANGED <<runVars, cmpVars, storeVars>>

NextCall ==
    \/ CallMakeRequest
    \/ CallDiscovery
    \/ CallWorker
    \/ CallAnalysis
    \/ CallTimedPhase
    \/ CallParseSymbolParts

SpecCall == InitCall /\ [][NextCall]_vars

-----------------------------------------------------------------------------
(* save_results, lines 498-536: the content of a stored record *)

\* --quick runs 100 requests (line 985); with total_requests = 100 the success
\* rate successful / total_requests * 100 is the integer `successful`.
QuickRequests == 100

SuccessRate(perf_stats) ==
    (Get(perf_stats, "successful", 0) * 100) \div Get(perf_stats, "total_requests", 1)

\* lines 523-528: the performance_summary projection
PerformanceSummary(perf_stats) ==
    [p99_latency_ms |-> Get(perf_stats, "latency_p99", -1),
     mean_latency_ms |-> Get(perf_stats, "latency_mean", -1),
     requests_per_sec |-> Get(perf_stats, "requests_per_sec", 0),
     success_rate |-> IF "error" \notin DOMAIN perf_stats
                      THEN SuccessRate(perf_stats) ELSE 0]

\* lines 512-529: the JSON object written; ok says that the file parses
StoredRecord(perf_stats, test_config, now) ==
    [ok |-> TRUE,
     data |-> [timestamp |-> now,
               test_configuration |-> test_config,
               performance_summary |-> PerformanceSummary(perf_stats)]]

\* A file that cannot be opened or is not JSON
Unreadable == [ok |-> FALSE, data |-> EmptyDict]

-----------------------------------------------------------------------------
(* _compare_with_file, lines 589-657 *)

\* lines 612-617: name, key, the key tried first in the stored summary, and
\* lower_is_better
Metrics ==
    << [name |-> "P99 Latency", key |-> "latency_p99", key_ms |-> "latency_p99_ms",
        lower_is_better |-> TRUE],
       [name |-> "Mean Latency", key |-> "latency_mean", key_ms |-> "latency_mean_ms",
        lower_is_better |-> TRUE],
       [name |-> "Requests/sec", key |-> "requests_per_sec", key_ms |-> "requests_per_sec",
        lower_is_better |-> FALSE],
       [name |-> "Success Rate", key |-> "successful", key_ms |-> "successful",
        lower_is_better |-> FALSE] >>

\* lines 620-626
PrevVal(metric, prev_perf) ==
    IF metric.key = "successful" THEN Get(prev_perf, "success_rate", 0)
    ELSE IF metric.key = "requests_per_sec" THEN Get(prev_perf, metric.key, 0)
    ELSE Get(prev_perf, metric.key_ms, Get(prev_perf, metric.key, 0))

CurrVal(metric, curr) ==
    IF metric.key = "successful"
    THEN (IF "error" \notin DOMAIN curr THEN SuccessRate(curr) ELSE 0)
    ELSE Get(curr, metric.key, 0)

\* A percentage ((curr - prev) / prev) * 100 is kept as the exact fraction
\* num / den with den > 0.
Change(curr_val, prev_val) == [num |-> (curr_val - prev_val) * 100, den |-> prev_val]
NoChange == [num |-> 0, den |-> 1]

Abs(x) == IF x < 0 THEN -x ELSE x
ChangeAbove(change, pct) == change.num > pct * change.den
ChangeBelow(change, pct) == change.num < pct * change.den
AbsChangeAbove(change, pct) == Abs(change.num) > pct * change.den

\* line 638
BaselineThreshold == 3
PreviousThreshold == 5
Threshold(isb) == IF isb THEN BaselineThreshold ELSE PreviousThreshold

\* A variant that flags a change equal to the threshold
SymbolForInclusive(change, lower_is_better, isb) ==
    LET improved == IF lower_is_better THEN change.num < 0 ELSE change.num > 0
    IN IF improved THEN "improved"
       ELSE IF Abs(change.num) >= Threshold(isb) * change.den THEN "regressed"
       ELSE "neutral"

\* lines 632-639: the mark printed in front of the metric
SymbolFor(change, lower_is_better, isb) ==
    LET improved == IF lower_is_better THEN change.num < 0 ELSE change.num > 0
    IN IF improved THEN "improved"
       ELSE IF AbsChangeAbove(change, Threshold(isb)) THEN "regressed"
       ELSE "neutral"

\* line 640
ArrowFor(change) ==
    IF change.num < 0 THEN "down" ELSE IF change.num > 0 THEN "up" ELSE "same"

\* lines 619-642: the lines printed, one for each metric that passes line 628
MetricLines(curr, prev_perf, isb) ==
    LET shown == {k \in 1..Len(Metrics) :
                     PrevVal(Metrics[k], prev_perf) > 0 /\ CurrVal(Metrics[k], curr) > 0}
        name_of == {Metrics[k].name : k \in shown}
        row(n) == CHOOSE k \in shown : Metrics[k].name = n
    IN [n \in name_of |->
          LET metric == Metrics[row(n)]
              prev_val == PrevVal(metric, prev_perf)
              curr_val == CurrVal(metric, curr)
              change == Change(curr_val, prev_val)
          IN [prev_val |-> prev_val, curr_val |-> curr_val, change |-> change,
              symbol |-> SymbolFor(change, metric.lower_is_better, isb),
              arrow |-> ArrowFor(change)]]

\* line 649
VerdictThreshold == 10

\* A variant that looks at the p99 latency alone
VerdictP99Only(p99_change, rps_change) ==
    IF ChangeAbove(p99_change, VerdictThreshold) THEN "regression"
    ELSE IF ChangeBelow(p99_change, -VerdictThreshold) THEN "improvement"
    ELSE "similar"

\* lines 649-654
VerdictOf(p99_change, rps_change) ==
    IF ChangeAbove(p99_change, VerdictThreshold)
          \/ ChangeBelow(rps_change, -VerdictThreshold) THEN "regression"
    ELSE IF ChangeBelow(p99_change, -VerdictThreshold)
          \/ ChangeAbove(rps_change, VerdictThreshold) THEN "improvement"
    ELSE "similar"

\* lines 646-654
Verdict(curr, prev_perf) ==
    LET p99_change ==
            IF Get(prev_perf, "p99_latency_ms", 0) > 0
            THEN Change(Get(curr, "latency_p99", 0), Get(prev_perf, "p99_latency_ms", 0))
            ELSE NoChange
        rps_change ==
            IF Get(prev_perf, "requests_per_sec", 0) > 0
            THEN Change(Get(curr, "requests_per_sec", 0),
                        Get(prev_perf, "requests_per_sec", 0))
            ELSE NoChange
    IN VerdictOf(p99_change, rps_change)

\* A variant without the try/except around the comparison
CompareWithFileUnguarded(curr, file, isb) ==
    IF ~file.ok
    THEN [outcome |-> "raised", lines |-> EmptyDict, verdict |-> "none"]
    ELSE LET prev_perf == Get(file.data, "performance_summary", EmptyDict)
         IN [outcome |-> "compared",
             lines |-> MetricLines(curr, prev_perf, isb),
             verdict |-> IF isb THEN Verdict(curr, prev_perf) ELSE "none"]

\* What one call prints: the metric lines and, for a baseline, the verdict;
\* or the "Could not compare" message of the except branch.
CompareWithFile(curr, file, isb) ==
    IF ~file.ok
    THEN [outcome |-> "could_not_compare", lines |-> EmptyDict, verdict |-> "none"]
    ELSE LET prev_perf == Get(file.data, "performance_summary", EmptyDict)
         IN [outcome |-> "compared",
             lines |-> MetricLines(curr, prev_perf, isb),
             verdict |-> IF isb THEN Verdict(curr, prev_perf) ELSE "none"]

-----------------------------------------------------------------------------
(* The comparator on its own: every current summary against every file *)

P99Samples == {9, 10, 11, 12}
MeanSamples == {5, 6}
RpsSamples == {890, 900, 950, 960, 970, 1000, 1030, 1040, 1050, 1060, 1100, 1110}
SuccessSamples == {94, 95, 96, 97, 100}

\* The two forms performance_benchmark returns (lines 470-494), with the
\* fields the comparator and save_results read
NormalStats(p99, mean, rps, successful) ==
    [total_requests |-> QuickRequests,
     successful |-> successful,
     failed |-> QuickRequests - successful,
     requests_per_sec |-> rps,
     latency_mean |-> mean,
     latency_p99 |-> p99]

DegradedStats ==
    [total_requests |-> QuickRequests,
     successful |-> 0,
     failed |-> QuickRequests,
     error |-> "No successful requests"]

CurrentSummaries ==
    {NormalStats(p, m, r, s) :
        p \in P99Samples, m \in MeanSamples, r \in RpsSamples, s \in SuccessSamples}
        \cup {DegradedStats}

TestConfig == [connections |-> 10, requests |-> QuickRequests, mode |-> "data"]

ReferenceStats == NormalStats(10, 5, 1000, 100)

\* Records written by save_results
SavedFiles ==
    {StoredRecord(st, TestConfig, 0) :
        st \in {ReferenceStats, NormalStats(12, 6, 950, 95), DegradedStats}}

\* A record whose summary carries the key names line 625 looks up first
RecordWithMsKeys ==
    [ok |-> TRUE,
     data |-> [timestamp |-> 0,
               test_configuration |-> TestConfig,
               performance_summary |->
                   [latency_p99_ms |-> 10, latency_mean_ms |-> 5,
                    requests_per_sec |-> 1000, success_rate |-> 100]]]

\* JSON without a performance_summary
RecordWithoutSummary == [ok |-> TRUE, data |-> [timestamp |-> 0]]

CompareFiles ==
    SavedFiles \cup {RecordWithMsKeys, RecordWithoutSummary, Unreadable}

InitCmp ==
    /\ curr_perf \in CurrentSummaries
    /\ prev_file \in CompareFiles
    /\ is_baseline \in BOOLEAN
    /\ cmp_pc = "call"
    /\ report = EmptyDict
    /\ RunIdle
    /\ StoreIdle
    /\ CallIdle

CompareCall ==
    /\ cmp_pc = "call"
    /\ report' = CompareWithFile(curr_perf, prev_file, is_baseline)
    /\ cmp_pc' = "returned"
    /\ UNCHANGED <<curr_perf, prev_file, is_baseline>>
    /\ UNCHANGED <<runVars, storeVars, callVars>>

NextCmp == CompareCall

SpecCmp == InitCmp /\ [][NextCmp]_vars

-----------------------------------------------------------------------------
(* The result store: results_dir, the baseline locations and the clock *)

\* A file name: benchmark_<stamp>.json or benchmark_baseline.json, in
\* results_dir or in the root directory (the second baseline location).
RunFile(stamp) == [dir |-> "results", kind |-> "run", stamp |-> stamp]
BaselineFile(dir) == [dir |-> dir, kind |-> "baseline", stamp |-> 0]

\* A variant whose format leaves the seconds out
StampWithoutSeconds(now) == now \div (TicksPerSecond * 2)

\* line 500: strftime("%Y%m%d_%H%M%S") keeps the whole seconds of the clock
Stamp(now) == now \div TicksPerSecond

\* The order sorted() gives the names of one directory: the stamps are digit
\* strings of one length, and "benchmark_baseline.json" comes after
\* "benchmark_2..." because 'b' > '2'.
NameBefore(a, b) ==
    IF a.kind = "baseline" THEN FALSE
    ELSE IF b.kind = "baseline" THEN TRUE
    ELSE a.stamp < b.stamp

RECURSIVE Sorted(_)
Sorted(names) ==
    IF names = {} THEN << >>
    ELSE LET first == CHOOSE n \in names : \A o \in names \ {n} : NameBefore(n, o)
         IN <<first>> \o Sorted(names \ {first})

\* glob.glob(f"{results_dir}/benchmark_*.json")
Glob(files) == {n \in DOMAIN files : n.dir = "results"}

\* lines 574-575: the files compare_with_previous enumerates
PreviousFiles(files, filename) ==
    Sorted({f \in Glob(files) : f # filename /\ f.kind # "baseline"})

\* line 921: the files the compare-only operation enumerates
CompareOnlyFiles(files) == Sorted(Glob(files))

\* lines 547-557: the first baseline location that exists
BaselineLocations == <<BaselineFile("results"), BaselineFile("root")>>

FindBaseline(files) ==
    LET found == {k \in 1..Len(BaselineLocations) : BaselineLocations[k] \in DOMAIN files}
    IN IF found = {} THEN << >>
       ELSE <<BaselineLocations[CHOOSE k \in found : \A j \in found : k <= j]>>

Write(files, name, content) ==
    [n \in DOMAIN files \cup {name} |-> IF n = name THEN content ELSE files[n]]

LastN(seq, n) ==
    IF Len(seq) <= n THEN seq ELSE SubSeq(seq, Len(seq) - n + 1, Len(seq))

SelectLoadable(seq, files) ==
    SelectSeq(seq, LAMBDA f :
        /\ files[f].ok
        /\ {"timestamp", "test_configuration", "performance_summary"}
              \subseteq DOMAIN files[f].data)

PersistSummaries == {ReferenceStats, DegradedStats}

-----------------------------------------------------------------------------
(* _show_historical_trend, lines 659-698 *)

NoTrend == [shown |-> FALSE, p99 |-> << >>, rps |-> << >>]

\* A variant that takes the last five previous files
RecentFilesOfFive(previous_files, current_file) ==
    LastN(previous_files, 5) \o <<current_file>>

\* line 664: previous_files[-4:] + [current_file]
RecentFiles(previous_files, current_file) ==
    LastN(previous_files, 4) \o <<current_file>>

\* lines 669-680: the value a file contributes, or the default when it has
\* none; a file that does not load is skipped by the except branch
TrendValue(files, file, key, default) ==
    Get(Get(files[file].data, "performance_summary", EmptyDict), key, default)

TrendPoints(files, recent_files, key, default) ==
    SelectSeq(recent_files,
              LAMBDA f : files[f].ok /\ TrendValue(files, f, key, default) > 0)

\* lines 686-687: int(val / max_val * 30), and at least one block
BarLen(val, max_val) == Max(1, (val * 30) \div max_val)

\* lines 683-688 and 690-696: one bar for each point
Bars(files, points, key, default) ==
    LET vals == [i \in 1..Len(points) |-> TrendValue(files, points[i], key, default)]
    IN [i \in 1..Len(points) |->
           [file |-> points[i], val |-> vals[i], bar_len |-> BarLen(vals[i], MaxOf(vals))]]

ShowHistoricalTrend(files, previous_files, current_file) ==
    LET recent_files == RecentFiles(previous_files, current_file)
    IN [shown |-> TRUE,
        p99 |-> Bars(files, TrendPoints(files, recent_files, "p99_latency_ms", -1),
                     "p99_latency_ms", -1),
        rps |-> Bars(files, TrendPoints(files, recent_files, "requests_per_sec", 0),
                     "requests_per_sec", 0)]

-----------------------------------------------------------------------------
(* compare_with_previous, lines 538-587 *)

\* An exception of _compare_with_file would leave compare_with_previous at
\* the call: the steps after it do not run.
CompareWithPrevious(files, current_stats, filename) ==
    LET baseline == FindBaseline(files)
        previous_files == PreviousFiles(files, filename)
        vs_baseline ==
            IF baseline = << >> THEN << >>
            ELSE <<[kind |-> "baseline", against |-> baseline[1], current |-> filename,
                    result |-> CompareWithFile(current_stats, files[baseline[1]], TRUE)]>>
        vs_previous ==
            IF previous_files = << >> THEN << >>
            ELSE LET latest_previous == previous_files[Len(previous_files)]
                 IN <<[kind |-> "previous", against |-> latest_previous,
                       current |-> filename,
                       result |-> CompareWithFile(current_stats, files[latest_previous],
                                                  FALSE)]>>
        raises(cmp) == cmp # << >> /\ cmp[1].result.outcome = "raised"
    IN IF raises(vs_baseline)
       THEN [raised |-> TRUE, listing |-> << >>, compared |-> vs_baseline,
             trend |-> NoTrend]
       ELSE IF raises(vs_previous)
       THEN [raised |-> TRUE, listing |-> previous_files,
             compared |-> vs_baseline \o vs_previous, trend |-> NoTrend]
       ELSE [raised |-> FALSE, listing |-> previous_files,
             compared |-> vs_baseline \o vs_previous,
             trend |-> IF previous_files = << >> THEN NoTrend
                       ELSE ShowHistoricalTrend(files, previous_files, filename)]

-----------------------------------------------------------------------------
(* The operations on the store *)

InitStore ==
    /\ disk = EmptyDict
    /\ clock = 0
    /\ op = "none"
    /\ listing = << >>
    /\ exit_code = NoExit
    /\ compared = << >>
    /\ failed_tests = 0
    /\ persist = "none"
    /\ raised = FALSE
    /\ trend = NoTrend
    /\ RunIdle
    /\ CmpIdle
    /\ CallIdle

\* The number of functional tests a run records as failed
FailedTestCounts == {0, 1}

\* main line 1008: sys.exit(0 if success else 1) with success the value
\* run_full_suite returns at line 860
ExitCode(failed) == IF failed = 0 THEN 0 ELSE 1

\* The state an invocation that runs no full suite leaves behind
NoRun ==
    /\ failed_tests' = 0
    /\ persist' = "none"
    /\ raised' = FALSE
    /\ trend' = NoTrend

\* run_full_suite with save_results=True, lines 826-860: the functional
\* tests and the benchmark, then save_results, then compare_with_previous
\* against the baseline (if one is found) and the latest previous file
SaveAndCompare ==
    /\ \E failed \in FailedTestCounts, perf_stats \in PersistSummaries :
         \E filename \in {RunFile(Stamp(clock))} :
         \E written \in {Write(disk, filename,
                                StoredRecord(perf_stats, TestConfig, clock))} :
         \E cmp \in {CompareWithPrevious(written, perf_stats, filename)} :
            /\ disk' = written
            /\ listing' = cmp.listing
            /\ compared' = cmp.compared
            /\ trend' = cmp.trend
            /\ raised' = cmp.raised
            /\ failed_tests' = failed
            /\ exit_code' = IF cmp.raised THEN 1 ELSE ExitCode(failed)
    /\ persist' = "written"
    /\ op' = "run"
    /\ UNCHANGED clock
    /\ UNCHANGED <<runVars, cmpVars, callVars>>

\* run_full_suite with save_results=True when os.makedirs or open in
\* save_results (lines 508-534) raises OSError: nothing catches it in
\* save_results, run_full_suite or main, and the interpreter exits with 1
SaveFails ==
    /\ \E failed \in FailedTestCounts : failed_tests' = failed
    /\ persist' = "failed"
    /\ raised' = TRUE
    /\ trend' = NoTrend
    /\ exit_code' = 1
    /\ op' = "run"
    /\ listing' = << >>
    /\ compared' = << >>
    /\ UNCHANGED <<disk, clock>>
    /\ UNCHANGED <<runVars, cmpVars, callVars>>

\* run_full_suite with save_results=False (--no-save), lines 826-860
RunWithoutSave ==
    /\ \E failed \in FailedTestCounts :
         /\ failed_tests' = failed
         /\ exit_code' = ExitCode(failed)
    /\ persist' = "none"
    /\ raised' = FALSE
    /\ trend' = NoTrend
    /\ op' = "run"
    /\ listing' = << >>
    /\ compared' = << >>
    /\ UNCHANGED <<disk, clock>>
    /\ UNCHANGED <<runVars, cmpVars, callVars>>

\* run_full_suite lines 818-823: the connectivity request does not answer
\* 200; it returns False before any functional test
CannotConnect ==
    /\ NoRun
    /\ exit_code' = 1
    /\ op' = "no_connection"
    /\ listing' = << >>
    /\ compared' = << >>
    /\ UNCHANGED <<disk, clock>>
    /\ UNCHANGED <<runVars, cmpVars, callVars>>

\* main lines 962-977: the change of the last loaded summary against the
\* one before it, and the marks printed
LastVsPrevious(curr, prev) ==
    LET p99_change == IF prev.p99_latency_ms > 0
                      THEN Change(curr.p99_latency_ms, prev.p99_latency_ms)
                      ELSE NoChange
        rps_change == IF prev.requests_per_sec > 0
                      THEN Change(curr.requests_per_sec, prev.requests_per_sec)
                      ELSE NoChange
    IN [p99_change |-> p99_change,
        rps_change |-> rps_change,
        p99_symbol |-> IF ChangeBelow(p99_change, 0) THEN "improved"
                       ELSE IF ChangeAbove(p99_change, 5) THEN "regressed"
                       ELSE "neutral",
        rps_symbol |-> IF ChangeAbove(rps_change, 0) THEN "improved"
                       ELSE IF ChangeBelow(rps_change, -5) THEN "regressed"
                       ELSE "neutral"]

\* main lines 914-980: the compare-only operation
CompareOnly ==
    /\ LET files == CompareOnlyFiles(disk)
           all_results == SelectLoadable(LastN(files, 5), disk)
       IN /\ listing' = files
          /\ IF Len(files) < 2
             THEN /\ exit_code' = 1
                  /\ compared' = << >>
             ELSE /\ exit_code' = 0
                  /\ compared' =
                        IF Len(all_results) >= 2
                        THEN <<[kind |-> "last_vs_previous",
                                against |-> all_results[Len(all_results) - 1],
                                current |-> all_results[Len(all_results)],
                                result |-> LastVsPrevious(
                                    disk[all_results[Len(all_results)]]
                                        .data.performance_summary,
                                    disk[all_results[Len(all_results) - 1]]
                                        .data.performance_summary)]>>
                        ELSE << >>
    /\ op' = "compare_only"
    /\ NoRun
    /\ UNCHANGED <<disk, clock>>
    /\ UNCHANGED <<runVars, cmpVars, callVars>>

\* Time passes between two invocations of the program
Tick ==
    /\ clock < MaxClock
    /\ clock' = clock + 1
    /\ op' = "none" /\ listing' = << >> /\ exit_code' = NoExit /\ compared' = << >>
    /\ NoRun
    /\ UNCHANGED disk
    /\ UNCHANGED <<runVars, cmpVars, callVars>>

\* line 570: the user makes a stored run the baseline, cp <run> <baseline>
InstallBaseline ==
    /\ \E src \in Glob(disk), dir \in {"results", "root"} :
         /\ src.kind = "run"
         /\ BaselineFile(dir) \notin DOMAIN disk
         /\ disk' = Write(disk, BaselineFile(dir), disk[src])
    /\ op' = "none" /\ listing' = << >> /\ exit_code' = NoExit /\ compared' = << >>
    /\ NoRun
    /\ UNCHANGED clock
    /\ UNCHANGED <<runVars, cmpVars, callVars>>

NextStore ==
    \/ SaveAndCompare
    \/ SaveFails
    \/ RunWithoutSave
    \/ CannotConnect
    \/ CompareOnly
    \/ Tick
    \/ InstallBaseline

SpecStore == InitStore /\ [][NextStore]_vars

-----------------------------------------------------------------------------
(* A full run in a results directory that holds earlier runs, some of them *)
(* not readable, and possibly a baseline                                    *)

SlowStats == NormalStats(400, 200, 20, 100)

\* What a file of an earlier run may hold
PriorRecords(now) ==
    {StoredRecord(st, TestConfig, now) : st \in {ReferenceStats, SlowStats, DegradedStats}}
        \cup {Unreadable}

BaselineOptions ==
    {EmptyDict,
     [n \in {BaselineFile("results")} |-> StoredRecord(ReferenceStats, TestConfig, 0)],
     [n \in {BaselineFile("root")} |-> Unreadable]}

\* Earlier runs of the seconds 0 .. k-1, k <= MaxPrior, and a baseline option
Directories ==
    UNION {
        {[n \in {RunFile(i - 1) : i \in 1..k} \cup DOMAIN b |->
             IF n \in DOMAIN b THEN b[n] ELSE runs[n.stamp + 1]] :
            runs \in [1..k -> PriorRecords(0)], b \in BaselineOptions} :
        k \in 0..MaxPrior}

InitDir ==
    /\ disk \in Directories
    /\ clock = Cardinality({n \in DOMAIN disk : n.kind = "run"}) * TicksPerSecond
    /\ op = "none"
    /\ listing = << >>
    /\ exit_code = NoExit
    /\ compared = << >>
    /\ failed_tests = 0
    /\ persist = "none"
    /\ raised = FALSE
    /\ trend = NoTrend
    /\ RunIdle
    /\ CmpIdle
    /\ CallIdle

\* One full run in the directory
RunInDirectory == op = "none" /\ SaveAndCompare

NextDir == RunInDirectory

SpecDir == InitDir /\ [][NextDir]_vars

-----------------------------------------------------------------------------
(* Properties of the load driver *)

TimedOver == pc \in {"shutdown", "analyze", "done"}
PoolExists == pc \in {"submit", "collect", "shutdown", "analyze", "done"}
Running == {t \in 1..Len(threads) : threads[t] # Idle}
Count(seq, x) == Cardinality({k \in 1..Len(seq) : seq[k] = x})
Outcomes == {make_request(resp, elapsed) : resp \in Responses, elapsed \in Latencies}

\* C1: the summary performance_benchmark returns satisfies
\* successful + failed = total_requests, and total_requests is the number of
\* requests asked for, in the normal and in the degraded form.
C1_CountsAddUp ==
    pc = "done" =>
        /\ stats.successful + stats.failed = stats.total_requests
        /\ stats.total_requests = requests

\* C1 witness: a finished run whose outcomes mix a 200 with a non-200
C1_Witness ==
    /\ pc = "done"
    /\ "error" \notin DOMAIN stats
    /\ stats.successful >= 1
    /\ stats.failed >= 1

\* C2: every request id is started at most once at any time and exactly once
\* by the end of the timed phase; the collected outcomes are exactly the
\* outcomes of the futures yielded so far (failed ones included, nothing from
\* the warmup), and there are `requests` of them when the phase is over.
C2_EachRequestOnce ==
    /\ \A k \in 1..Len(execs) : execs[k] <= 1
    /\ \A o \in Outcomes :
          Count(results, o) =
              Cardinality({i \in yielded : futures[i + 1].result = o})
    /\ Len(results) = Cardinality(yielded)
    /\ TimedOver =>
          /\ Len(results) = requests
          /\ Len(execs) = requests
          /\ \A k \in 1..requests : execs[k] = 1

\* C2 witness: the phase is over, a transport failure and an HTTP error were
\* both collected
C2_Witness ==
    /\ TimedOver
    /\ \E k \in 1..Len(results) : results[k].status = 0
    /\ \E k \in 1..Len(results) : results[k].status = 404

\* C3: never more than `connections` requests run at once, the executor never
\* holds more than `connections` threads, and its max_workers stays equal to
\* `connections` from its creation on.
C3_BoundedConcurrency ==
    /\ Cardinality(Running) <= connections
    /\ Cardinality({i \in 1..Len(futures) : futures[i].state = "RUNNING"}) <= connections
    /\ Len(threads) <= connections
    /\ PoolExists => max_workers = connections

\* C3 witness: a pool of two or more threads, all of them running a request
C3_Witness ==
    /\ connections >= 2
    /\ Cardinality(Running) = connections

\* C4: the completed counter always equals the number of outcomes collected
\* and equals `requests` when the timed phase is over.
C4_CounterExact ==
    /\ completed = Len(results)
    /\ TimedOver => completed = requests

\* C4 witness: an outcome was counted while another request is still running
C4_Witness ==
    /\ pc = "collect"
    /\ completed >= 1
    /\ Running # {}

-----------------------------------------------------------------------------
(* Properties of the comparator *)

Returned == cmp_pc = "returned"
Degraded(perf_stats) == "error" \in DOMAIN perf_stats
MetricNames == {Metrics[k].name : k \in 1..Len(Metrics)}
LatencyMetric(name) == name \in {"P99 Latency", "Mean Latency"}

\* The value save_results stored for a metric, and the current run's value
StoredValue(name, summary) ==
    CASE name = "P99 Latency" -> summary.p99_latency_ms
      [] name = "Mean Latency" -> summary.mean_latency_ms
      [] name = "Requests/sec" -> summary.requests_per_sec
      [] OTHER -> summary.success_rate

CurrentValue(name, perf_stats) ==
    IF Degraded(perf_stats) THEN 0
    ELSE CASE name = "P99 Latency" -> perf_stats.latency_p99
           [] name = "Mean Latency" -> perf_stats.latency_mean
           [] name = "Requests/sec" -> perf_stats.requests_per_sec
           [] OTHER -> (perf_stats.successful * 100) \div perf_stats.total_requests

\* C5 as claimed: a current run without a successful outcome is absent data
\* for the comparison: no metric line is printed and the verdict is neither
\* regression nor improvement.
C5_DegradedIsAbsentData ==
    (Returned /\ Degraded(curr_perf)) =>
        /\ DOMAIN report.lines = {}
        /\ report.verdict \notin {"regression", "improvement"}

\* C6 as claimed: against a record written by save_results each of the four
\* metrics is printed, with the change ((current - stored) / stored) * 100,
\* exactly when the current value and the stored value are both > 0.
C6_ChangeWhenBothPositive ==
    (Returned /\ prev_file \in SavedFiles) =>
        \A name \in MetricNames :
            LET stored == StoredValue(name, prev_file.data.performance_summary)
                current == CurrentValue(name, curr_perf)
            IN /\ name \in DOMAIN report.lines <=> (stored > 0 /\ current > 0)
               /\ name \in DOMAIN report.lines =>
                     /\ report.lines[name].change.num = (current - stored) * 100
                     /\ report.lines[name].change.den = stored

\* C7: a verdict is printed only for a baseline comparison and is one of
\* regression, improvement, similar.  For a current summary that carries the
\* metrics it is regression when p99 rose by more than 10% or requests/sec
\* fell by more than 10% against the baseline, else improvement when p99 fell
\* by more than 10% or requests/sec rose by more than 10%, else similar (a
\* baseline value that is not > 0 gives no change).  Baseline {p99 10, rps
\* 1000} against current {p99 12, rps 950} is a regression.
C7_Verdict ==
    Returned =>
        /\ ~is_baseline => report.verdict = "none"
        /\ report.verdict # "none" => report.outcome = "compared"
        /\ (is_baseline /\ prev_file.ok) =>
              report.verdict \in {"regression", "improvement", "similar"}
        /\ (is_baseline /\ prev_file.ok /\ ~Degraded(curr_perf)) =>
              LET base == Get(prev_file.data, "performance_summary", EmptyDict)
                  bp == Get(base, "p99_latency_ms", 0)
                  br == Get(base, "requests_per_sec", 0)
                  cp == curr_perf.latency_p99
                  cr == curr_perf.requests_per_sec
                  p99_rose == bp > 0 /\ (cp - bp) * 100 > 10 * bp
                  p99_fell == bp > 0 /\ (bp - cp) * 100 > 10 * bp
                  rps_rose == br > 0 /\ (cr - br) * 100 > 10 * br
                  rps_fell == br > 0 /\ (br - cr) * 100 > 10 * br
              IN report.verdict =
                    IF p99_rose \/ rps_fell THEN "regression"
                    ELSE IF p99_fell \/ rps_rose THEN "improvement"
                    ELSE "similar"
        /\ (/\ is_baseline
            /\ prev_file = StoredRecord(ReferenceStats, TestConfig, 0)
            /\ ~Degraded(curr_perf)
            /\ curr_perf.latency_p99 = 12
            /\ curr_perf.requests_per_sec = 950) => report.verdict = "regression"

\* C7 witness: the baseline {p99 10, rps 1000} compared with {p99 12, rps 950}
C7_Witness ==
    /\ Returned
    /\ is_baseline
    /\ prev_file = StoredRecord(ReferenceStats, TestConfig, 0)
    /\ ~Degraded(curr_perf)
    /\ curr_perf.latency_p99 = 12
    /\ curr_perf.requests_per_sec = 950
    /\ report.verdict = "regression"

\* C8: on every printed metric line the change is marked as a regression
\* exactly when it goes the unfavourable way for the metric (latency up,
\* requests/sec or success rate down) by more than 3% against the baseline,
\* 5% against the previous run; an unfavourable change of at most the
\* threshold and a zero change are marked neutral.
C8_SignificantChange ==
    Returned =>
        \A name \in DOMAIN report.lines :
            LET line == report.lines[name]
                pct == IF is_baseline THEN 3 ELSE 5
                unfavourable == IF LatencyMetric(name)
                                THEN line.curr_val > line.prev_val
                                ELSE line.curr_val < line.prev_val
                exceeds == Abs(line.curr_val - line.prev_val) * 100 > pct * line.prev_val
            IN /\ line.symbol = "regressed" <=> (unfavourable /\ exceeds)
               /\ (unfavourable /\ ~exceeds) => line.symbol = "neutral"
               /\ line.curr_val = line.prev_val => line.symbol = "neutral"

\* C8 witness: requests/sec 4% under the baseline's is marked, which it would
\* not be against the previous run
C8_Witness ==
    /\ Returned
    /\ is_baseline
    /\ "Requests/sec" \in DOMAIN report.lines
    /\ report.lines["Requests/sec"].prev_val = 1000
    /\ report.lines["Requests/sec"].curr_val = 960
    /\ report.lines["Requests/sec"].symbol = "regressed"

-----------------------------------------------------------------------------
(* Properties of the result store *)

RunRecords(files) == {n \in Glob(files) : n.kind = "run"}

\* C9 as claimed: the enumeration of stored records that the post-run
\* comparison and the compare-only operation use holds no baseline and is in
\* ascending order of identifier, so its last element is the latest run.
C9_ListingWithoutBaseline ==
    op \in {"run", "compare_only"} =>
        /\ \A k \in 1..Len(listing) : listing[k].kind = "run"
        /\ \A j, k \in 1..Len(listing) : j < k => listing[j].stamp < listing[k].stamp

\* C10 as claimed: compare-only with fewer than two stored runs exits with
\* status 1 and compares nothing; a baseline file in results_dir is not
\* counted as a run.
C10_TwoRunsNeeded ==
    (op = "compare_only" /\ Cardinality(RunRecords(disk)) < 2) =>
        /\ exit_code = 1
        /\ compared = << >>

\* C11 as claimed: no step changes or removes a stored run, not even a
\* persist within the second of an earlier one.
C11_AppendOnly ==
    [][\A f \in RunRecords(disk) : f \in DOMAIN disk' /\ disk'[f] = disk[f]]_vars

\* C11 amended: no step removes a stored run, and a step changes a stored run
\* only by persisting within the second the run's name was taken from.
C11_AppendOnlyAcrossSeconds ==
    [][\A f \in RunRecords(disk) :
          /\ f \in DOMAIN disk'
          /\ disk'[f] # disk[f] => f.stamp = clock \div TicksPerSecond]_vars

\* C11 witness: after a later persist the run of an earlier second is still
\* there with the content it was written with
C11_Witness ==
    /\ op = "run"
    /\ persist = "written"
    /\ \E f, g \in RunRecords(disk) :
          /\ f.stamp < g.stamp
          /\ g.stamp = clock \div TicksPerSecond
          /\ disk[f].data.timestamp \div TicksPerSecond = f.stamp

\* C12 as claimed: when save_results cannot write the record the run does
\* not abort and its exit status is the functional result.
C12_WriteFailureIsWarning ==
    (op = "run" /\ persist = "failed") =>
        /\ ~raised
        /\ exit_code = IF failed_tests = 0 THEN 0 ELSE 1

\* C14 as claimed: a full run exits with 0 exactly when no functional test
\* was recorded as failed and with 1 exactly when one was.
C14_ExitCodeIsFunctionalResult ==
    op = "run" =>
        /\ exit_code = 0 <=> failed_tests = 0
        /\ exit_code = 1 <=> failed_tests >= 1

\* C13 as claimed: once the interrupt has arrived during the timed phase no
\* request that has not started yet is started.
C13_NoStartAfterInterrupt ==
    [][pc = "interrupted" => execs' = execs]_vars

\* What indices 0..5 fetch in mixed mode with the symbols [A, B]
MixedExample ==
    << <<"symbols", "-">>, <<"status", "-">>, <<"data", "BTC-USD">>,
       <<"symbols", "-">>, <<"status", "-">>, <<"data", "ETH-USD">> >>

\* C15: in mixed mode request i goes to the symbols endpoint when i mod 3 = 0,
\* to the status endpoint when i mod 3 = 1 and to a data query for
\* S[i mod len(S)] when i mod 3 = 2; with S = [A, B] the indices 0..5 fetch
\* symbols, status, data(A), symbols, status, data(B).
C15_MixedRouting ==
    (args.fn = "worker" /\ args.mode = "mixed" /\ ret.state # "pending") =>
        LET i == args.request_id
            S == args.symbols
        IN /\ ret.state = "returned"
           /\ i % 3 = 0 => ret.value.endpoint = "symbols"
           /\ i % 3 = 1 => ret.value.endpoint = "status"
           /\ i % 3 = 2 => /\ ret.value.endpoint = "data"
                           /\ ret.value.symbol = S[(i % Len(S)) + 1]
           /\ (S = <<"BTC-USD", "ETH-USD">> /\ i <= 5) =>
                  <<ret.value.endpoint, ret.value.symbol>> = MixedExample[i + 1]

\* C15 witness: request 5 of the example has been routed to data(B)
C15_Witness ==
    /\ args.fn = "worker" /\ args.mode = "mixed"
    /\ args.symbols = <<"BTC-USD", "ETH-USD">> /\ args.request_id = 5
    /\ ret.state = "returned"
    /\ ret.value.endpoint = "data" /\ ret.value.symbol = "ETH-USD"

\* Discovery got nothing usable: no answer 200, no JSON, no exchanges, or
\* only empty symbol lists
NothingUsable ==
    \/ make_request(args.resp, 1).status # 200
    \/ ~args.body.json
    \/ ~args.body.has_exchanges
    \/ \A e \in 1..Len(args.body.exchanges) : args.body.exchanges[e] = << >>

\* C16: whatever discovery gets, the symbols list it leaves is not empty, so
\* every data or mixed request index is routed to a URL, and when discovery
\* got nothing usable the list is the built-in default symbol.
C16_SymbolsNeverEmpty ==
    (args.fn = "discover" /\ ret.state # "pending") =>
        /\ ret.state = "returned"
        /\ Len(ret.value) >= 1
        /\ \A m \in {"data", "mixed"}, i \in 0..MaxIndex :
              WorkerUrl(m, i, ret.value).endpoint \in {"symbols", "status", "data"}
        /\ NothingUsable =>
              /\ ret.value = <<"BTC-USD">>
              /\ \A i \in 0..MaxIndex : WorkerUrl("data", i, ret.value).symbol = "BTC-USD"

\* C16 witness: discovery got an answer 200 with empty symbol lists and left
\* the default symbol
C16_Witness ==
    /\ args.fn = "discover" /\ ret.state = "returned"
    /\ make_request(args.resp, 1).status = 200
    /\ args.body.has_exchanges /\ args.body.exchanges # << >>
    /\ NothingUsable
    /\ ret.value = <<"BTC-USD">>

\* The answer is 200 and every exchange lists a non-empty list of strings
ListsOfStrings ==
    /\ make_request(args.resp, 1).status = 200
    /\ args.body.json /\ args.body.has_exchanges
    /\ args.body.exchanges # << >>
    /\ \A e \in 1..Len(args.body.exchanges) :
          /\ args.body.exchanges[e] # << >>
          /\ \A k \in 1..Len(args.body.exchanges[e]) :
                args.body.exchanges[e][k].type = "str"

\* C17 as claimed: when discovery gets non-empty lists of symbol strings,
\* some data or mixed request is made for a discovered symbol.
C17_DiscoveredSymbolsUsed ==
    (args.fn = "discover" /\ ret.state = "returned" /\ ListsOfStrings) =>
        \E m \in {"data", "mixed"}, i \in 0..MaxIndex :
            \E e \in 1..Len(args.body.exchanges) :
                \E k \in 1..Len(args.body.exchanges[e]) :
                    /\ WorkerUrl(m, i, ret.value).endpoint = "data"
                    /\ WorkerUrl(m, i, ret.value).symbol =
                           args.body.exchanges[e][k].symbol

\* C18: make_request always returns an outcome: for an HTTP error answer the
\* answer's status with an error string, for a transport failure status 0,
\* zero bytes and an error string.
C18_AlwaysAnOutcome ==
    (args.fn = "make_request" /\ ret.state # "pending") =>
        /\ ret.state = "returned"
        /\ args.resp \in HTTPErrors =>
              /\ ret.value.status = args.resp.code
              /\ ret.value.error # "None"
        /\ args.resp \in TransportFailures =>
              /\ ret.value.status = 0
              /\ ret.value.bytes = 0
              /\ ret.value.error # "None"

\* C18 witness: a timeout while reading the body came back as an outcome
C18_Witness ==
    /\ args.fn = "make_request" /\ args.resp.kind = "TimeoutError"
    /\ ret.state = "returned" /\ ret.value.status = 0

\* The indices of the answers 200 of the analysed results list
LatencyIndices == {k \in 1..Len(args.results) : args.results[k].status = 200}

\* The element at 0-based index k of the ascending order of the latencies
AtRank(k) ==
    CHOOSE v \in {args.results[j].latency_ms : j \in LatencyIndices} :
        /\ Cardinality({j \in LatencyIndices : args.results[j].latency_ms < v}) <= k
        /\ k < Cardinality({j \in LatencyIndices : args.results[j].latency_ms <= v})

\* C19: with at least one successful latency the summary has
\* min <= p50 <= p90 <= p95 <= p99 <= max.
C19_PercentilesOrdered ==
    (args.fn = "analyze" /\ ret.state # "pending" /\ LatencyIndices # {}) =>
        /\ ret.state = "returned"
        /\ ret.value.latency_min <= ret.value.latency_p50
        /\ ret.value.latency_p50 <= ret.value.latency_p90
        /\ ret.value.latency_p90 <= ret.value.latency_p95
        /\ ret.value.latency_p95 <= ret.value.latency_p99
        /\ ret.value.latency_p99 <= ret.value.latency_max

\* C19 witness: a summary whose six values are all different
C19_Witness ==
    /\ args.fn = "analyze" /\ ret.state = "returned" /\ LatencyIndices # {}
    /\ ret.value.latency_min < ret.value.latency_p50
    /\ ret.value.latency_p50 < ret.value.latency_p90
    /\ ret.value.latency_p90 < ret.value.latency_p95
    /\ ret.value.latency_p95 < ret.value.latency_p99
    /\ ret.value.latency_p99 < ret.value.latency_max

\* C20: for n >= 1 successful latencies each of p50, p90, p95, p99 is the
\* element of the ascending latencies at index min(floor(n*p/100), n-1); for
\* the ten latencies 1..10 p90 is 10 and p50 is 6.
C20_PercentileRule ==
    (args.fn = "analyze" /\ ret.state # "pending" /\ LatencyIndices # {}) =>
        LET n == Cardinality(LatencyIndices)
            Index(p) == IF (n * p) \div 100 < n - 1 THEN (n * p) \div 100 ELSE n - 1
        IN /\ ret.state = "returned"
           /\ ret.value.latency_p50 = AtRank(Index(50))
           /\ ret.value.latency_p90 = AtRank(Index(90))
           /\ ret.value.latency_p95 = AtRank(Index(95))
           /\ ret.value.latency_p99 = AtRank(Index(99))
           /\ {args.results[j].latency_ms : j \in LatencyIndices} = 1..10 /\ n = 10 =>
                  /\ ret.value.latency_p90 = 10
                  /\ ret.value.latency_p50 = 6

\* C20 witness: the ten latencies 1..10 were summarised with p90 10 and p50 6
C20_Witness ==
    /\ args.fn = "analyze" /\ ret.state = "returned"
    /\ Len(args.results) = 10
    /\ {args.results[j].latency_ms : j \in LatencyIndices} = 1..10
    /\ ret.value.latency_p90 = 10 /\ ret.value.latency_p50 = 6

Clamp(x, lo, hi) == IF x < lo THEN lo ELSE IF x > hi THEN hi ELSE x

\* C21: the warmup issues exactly clamp(floor(requests / 10), 10, 50)
\* requests, and all of them have completed before the executor of the timed
\* phase exists and before any timed request is submitted or sent.
C21_WarmupThenTimed ==
    LET count == Clamp(requests \div 10, 10, 50)
    IN /\ warmup_i <= count
       /\ pc = "discover" => warmup_i = 0
       /\ pc \notin {"discover", "warmup"} => warmup_i = count
       /\ (max_workers # 0 \/ futures # << >> \/ \E x \in issued : x[1] = "timed")
              => warmup_i = count

\* C21 witness: of 250 requests the first timed one has been sent after 25
\* warmup requests
C21_Witness ==
    /\ requests = 250
    /\ warmup_i = 25
    /\ \E x \in issued : x[1] = "timed"

\* The run files the directory held before the current one, the baseline
\* compare_with_previous finds, and the comparison of a kind it printed
CurrentFile == RunFile(clock \div TicksPerSecond)
PriorRuns == {n \in DOMAIN disk : n.kind = "run" /\ n # CurrentFile}
LatestPrior == CHOOSE n \in PriorRuns : \A o \in PriorRuns : o.stamp <= n.stamp
BaselinesOnDisk == {n \in DOMAIN disk : n.kind = "baseline"}
Comparisons(kind) == {k \in 1..Len(compared) : compared[k].kind = kind}

\* C22: a baseline or earlier record that is missing or does not load never
\* makes the run raise or changes its exit status; the comparison with it is
\* replaced by a message and the comparison with the latest earlier run and
\* the historical trend still take place.
C22_ComparisonNeverFails ==
    (op = "run" /\ persist = "written") =>
        /\ ~raised
        /\ exit_code = 0 <=> failed_tests = 0
        /\ BaselinesOnDisk = {} => Comparisons("baseline") = {}
        /\ \A k \in Comparisons("baseline") \cup Comparisons("previous") :
              compared[k].result.outcome =
                  IF disk[compared[k].against].ok THEN "compared"
                  ELSE "could_not_compare"
        /\ BaselinesOnDisk # {} => Comparisons("baseline") # {}
        /\ PriorRuns # {} =>
              /\ \E k \in Comparisons("previous") : compared[k].against = LatestPrior
              /\ trend.shown

\* C22 witness: the baseline and the latest earlier run did not load, both
\* comparisons printed the message and the trend was shown
C22_Witness ==
    /\ op = "run" /\ persist = "written" /\ ~raised
    /\ \E k \in Comparisons("baseline") : compared[k].result.outcome = "could_not_compare"
    /\ \E k \in Comparisons("previous") : compared[k].result.outcome = "could_not_compare"
    /\ trend.shown /\ Len(trend.rps) >= 2

\* The window of the trend: the up to four earlier runs with the greatest
\* names, and the current run
Window ==
    {n \in PriorRuns : Cardinality({o \in PriorRuns : o.stamp > n.stamp}) < 4}
        \cup {CurrentFile}

StoredSummaryValue(n, key) ==
    IF disk[n].ok /\ "performance_summary" \in DOMAIN disk[n].data
    THEN disk[n].data.performance_summary[key] ELSE 0

\* The bars of one metric: the records of the window that hold a value > 0,
\* in ascending order of their names, each bar between 1 and 30 blocks long,
\* the length being floor(30 * value / maximum) where that is at least 1
WellFormedBars(bars, key) ==
    /\ Len(bars) <= 5
    /\ {bars[i].file : i \in 1..Len(bars)} =
           {n \in Window : StoredSummaryValue(n, key) > 0}
    /\ \A i, j \in 1..Len(bars) : i < j => bars[i].file.stamp < bars[j].file.stamp
    /\ \A i \in 1..Len(bars) :
          LET max_val == CHOOSE v \in {bars[j].val : j \in 1..Len(bars)} :
                             \A j \in 1..Len(bars) : bars[j].val <= v
          IN /\ bars[i].val = StoredSummaryValue(bars[i].file, key)
             /\ bars[i].bar_len \in 1..30
             /\ bars[i].val = max_val => bars[i].bar_len = 30
             /\ \/ bars[i].bar_len = 1 /\ bars[i].val * 30 < 2 * max_val
                \/ /\ bars[i].bar_len * max_val <= bars[i].val * 30
                   /\ bars[i].val * 30 < (bars[i].bar_len + 1) * max_val

\* C23: the trend has at most five points, the up to four earlier records
\* with the greatest names in ascending order and then the current one; each
\* bar is proportional to value / maximum of the window, between 1 and 30
\* long, and 30 long for a point that holds the maximum.
C23_TrendWindowAndBars ==
    (op = "run" /\ persist = "written" /\ trend.shown) =>
        /\ WellFormedBars(trend.p99, "p99_latency_ms")
        /\ WellFormedBars(trend.rps, "requests_per_sec")

\* C23 witness: of five earlier runs the oldest is left out, and the five
\* bars shown include one of 30 blocks and one cut off at 1 block
C23_Witness ==
    /\ op = "run" /\ persist = "written" /\ trend.shown
    /\ Cardinality(PriorRuns) >= 5
    /\ Len(trend.rps) = 5
    /\ trend.rps[1].file.stamp = 1
    /\ trend.rps[5].file = CurrentFile
    /\ \E i \in 1..5 : trend.rps[i].bar_len = 30
    /\ \E i \in 1..5 : trend.rps[i].bar_len = 1

\* C27 as claimed: the compare-only operation computes the change of a
\* metric between the last two run records only when both hold a value > 0;
\* otherwise it reports no change of that metric.
C27_ChangeNeedsBothPositive ==
    (op = "compare_only" /\ compared # << >>
        /\ compared[1].against.kind = "run" /\ compared[1].current.kind = "run") =>
        LET curr == disk[compared[1].current].data.performance_summary
            prev == disk[compared[1].against].data.performance_summary
        IN /\ (curr.p99_latency_ms <= 0 \/ prev.p99_latency_ms <= 0) =>
                 /\ compared[1].result.p99_change.num = 0
                 /\ compared[1].result.p99_symbol = "neutral"
           /\ (curr.requests_per_sec <= 0 \/ prev.requests_per_sec <= 0) =>
                 /\ compared[1].result.rps_change.num = 0
                 /\ compared[1].result.rps_symbol = "neutral"

\* C24 as claimed: in api mode every warmup and timed request goes to the
\* symbols endpoint or to the status endpoint.
C24_ApiModeNoDataRequest ==
    mode = "api" =>
        \A x \in issued :
            x[1] \in {"warmup", "timed"} => x[2].endpoint \in {"symbols", "status"}

\* C25 as claimed: in mixed mode a run of at least 3 * len(symbols) requests
\* makes a data query for every symbol of the list.
C25_MixedCoversAllSymbols ==
    (args.fn = "timed_phase" /\ args.mode = "mixed" /\ ret.state = "returned"
        /\ args.requests >= 3 * Len(args.symbols)) =>
        \A k \in 1..Len(args.symbols) :
            \E i \in 1..args.requests :
                /\ ret.value[i].endpoint = "data"
                /\ ret.value[i].symbol = args.symbols[k]

\* C26 as claimed: every outcome the statistics count as failed carries an
\* error string, and every outcome without one is counted as successful.
C26_FailedIffError ==
    pc = "done" =>
        /\ \A k \in 1..Len(results) :
              results[k].status # 200 => results[k].error # "None"
        /\ \A k \in 1..Len(results) :
              results[k].error = "None" => results[k].status = 200
        /\ stats.failed =
              Cardinality({k \in 1..Len(results) : results[k].error # "None"})

\* C28 as claimed: parse_symbol_parts returns a (base, quote) pair for every
\* symbol and each of the five exchanges and never raises; a bitfinex symbol
\* without the leading 't' yields the fallback (symbol, "UNKNOWN").
C28_ParseAlwaysReturnsPair ==
    (args.fn = "parse_symbol_parts" /\ ret # Pending) =>
        /\ ret.state = "returned"
        /\ Len(ret.value) = 2
        /\ (args.exchange = "bitfinex" /\ args.symbol[1] # "t") =>
              ret.value = <<args.symbol, UNKNOWN>>

====
